---- MODULE Spec2Model ----
(***************************************************************************)
(* Model of the scheduling engine (syncme/backend/calendar/scheduler.py)   *)
(* and of the get_events path of its two calendar collaborators.           *)
(*                                                                         *)
(* Instants are minutes on one UTC timeline; minute 0 is Monday 00:00, so  *)
(* date d (a day index) has weekday d % 7 with 0 = Monday, as Python's     *)
(* date.weekday().  Every datetime is timezone-aware and in UTC.           *)
(* Confidence and score values are exact multiples of 1/1440: the integer  *)
(* v stands for v/1440, so that 1.0 = 1440, 0.1 = 144 and one minute of    *)
(* distance to the preferred instant costs exactly one unit.  The sums are *)
(* exact, where Python adds binary floats; the two agree wherever scores   *)
(* differ by more than rounding error or are both clamped to 1.0.          *)
(* Optional values are sequences: <<>> is None, <<v>> is the value v.      *)
(***************************************************************************)
EXTENDS Integers, Sequences, FiniteSets, TLC

VARIABLES
    op,               \* the operation that was called
    pc,               \* position inside the operation ("done" once finished)
    call,             \* the arguments of the call
    all_events,       \* _get_existing_events: the list being aggregated
    potential_slots,  \* find_available_slots: output of the generator
    available_slots,  \* find_available_slots: output of the conflict filter
    scored_slots,     \* find_available_slots: output of the scorer
    result,           \* the list handed to the caller
    ret_bool,         \* the boolean handed to the caller, when there is one
    outcome,          \* "none" while running, then "returned" or "raised"
    logged,           \* what the except clauses of the operation logged
    find,             \* arguments of the running find_available_slots
    collab_calls,     \* the collaborator methods invoked, in order
    req               \* collaborator request loop: attempt counter and trace

vars == <<op, pc, call, all_events, potential_slots, available_slots,
          scored_slots, result, ret_bool, outcome, logged, find, collab_calls,
          req>>

(***************************************************************************)
(* Bounds of the model.                                                    *)
(***************************************************************************)
MaxProviderEvents == 1
MaxInline == 1
MaxSlots == 3
MaxEvents == 2

(***************************************************************************)
(* Program constants.                                                      *)
(***************************************************************************)
min_slot_duration == 15
max_suggestions == 10
DefaultLookAheadDays == 14
RescheduleLookAheadDays == 30
max_retries == 3
BackoffCap == 60

None == <<>>
Some(v) == <<v>>
IsNone(o) == o = <<>>
Val(o) == o[1]

MinutesPerDay == 24 * 60
One == 24 * 60
Tenth == One \div 10
Fifth == One \div 5
Half == One \div 2
BaseConfidence == 4 * Fifth

At(d, h, m) == d * MinutesPerDay + h * 60 + m
TimeOfDay(t) == t % MinutesPerDay
HourOf(t) == TimeOfDay(t) \div 60
DateOf(t) == t \div MinutesPerDay
WeekdaySundayFirst(d) == (d + 1) % 7
Weekday(d) == d % 7

Min(a, b) == IF a < b THEN a ELSE b
Max(a, b) == IF a > b THEN a ELSE b
Abs(a) == IF a < 0 THEN 0 - a ELSE a

Statuses == {"scheduled", "cancelled", "completed", "rescheduled"}

UserPreferences(ws, we, b) ==
    [work_start_time |-> ws, work_end_time |-> we, buffer_time |-> b]
DefaultPreferences == UserPreferences(9 * 60, 17 * 60, 15)

TimeSlot(s, e, c) == [start_time |-> s, end_time |-> e, confidence |-> c]
TimeSlotValidHourOrMore(s, e) == e - s >= 60
TimeSlotValid(s, e) == e > s

Event(id, s, e, st) ==
    [event_id |-> id, start_time |-> s, end_time |-> e, status |-> st]

Ok(v) == [raised |-> FALSE, value |-> v]
Called(method, r) == [method |-> method, raised |-> r.raised, value |-> r.value]
Raise == [raised |-> TRUE, value |-> <<>>]

(***************************************************************************)
(* Scheduler._generate_day_slots: the cursor loop of one day.  TimeSlot's  *)
(* validator raises when end_time <= start_time, which happens on the      *)
(* first iteration exactly when duration <= 0.                             *)
(***************************************************************************)
SlotEndMinDuration(current_time, duration) ==
    current_time + min_slot_duration

SlotEnd(current_time, duration) == current_time + duration

RECURSIVE DaySlotsFromStrict(_, _, _, _)
DaySlotsFromStrict(current_time, work_end, duration, buffer) ==
    IF current_time + duration < work_end
    THEN LET slot_end == SlotEnd(current_time, duration) IN
         IF ~TimeSlotValid(current_time, slot_end)
         THEN Raise
         ELSE LET rest == DaySlotsFromStrict(slot_end + buffer, work_end,
                                             duration, buffer) IN
              IF rest.raised THEN Raise
              ELSE Ok(<<TimeSlot(current_time, slot_end, BaseConfidence)>>
                      \o rest.value)
    ELSE Ok(<<>>)

RECURSIVE DaySlotsFrom(_, _, _, _)
DaySlotsFrom(current_time, work_end, duration, buffer) ==
    IF current_time + duration <= work_end
    THEN LET slot_end == SlotEnd(current_time, duration) IN
         IF ~TimeSlotValid(current_time, slot_end)
         THEN Raise
         ELSE LET rest == DaySlotsFrom(slot_end + buffer, work_end,
                                       duration, buffer) IN
              IF rest.raised THEN Raise
              ELSE Ok(<<TimeSlot(current_time, slot_end, BaseConfidence)>>
                      \o rest.value)
    ELSE Ok(<<>>)

GenerateDaySlotsPastWorkEnd(target_date, duration, preferences) ==
    DaySlotsFrom(target_date * MinutesPerDay + preferences.work_start_time,
                 target_date * MinutesPerDay + preferences.work_end_time + 60,
                 duration, preferences.buffer_time)

GenerateDaySlotsNoBuffer(target_date, duration, preferences) ==
    DaySlotsFrom(target_date * MinutesPerDay + preferences.work_start_time,
                 target_date * MinutesPerDay + preferences.work_end_time,
                 duration, 0)

_generate_day_slots(target_date, duration, preferences) ==
    DaySlotsFrom(target_date * MinutesPerDay + preferences.work_start_time,
                 target_date * MinutesPerDay + preferences.work_end_time,
                 duration, preferences.buffer_time)

(***************************************************************************)
(* Scheduler._generate_potential_slots: the loop over the dates; skip is    *)
(* exclude_weekends.                                                       *)
(***************************************************************************)
RECURSIVE _generate_potential_slots(_, _, _, _, _)
_generate_potential_slots(current_date, end_date, duration, prefs, skip) ==
    IF current_date <= end_date
    THEN IF skip /\ Weekday(current_date) >= 5
         THEN _generate_potential_slots(current_date + 1, end_date, duration,
                                        prefs, skip)
         ELSE LET day_slots == _generate_day_slots(current_date, duration,
                                                   prefs) IN
              IF day_slots.raised THEN Raise
              ELSE LET rest == _generate_potential_slots(
                                   current_date + 1, end_date, duration,
                                   prefs, skip) IN
                   IF rest.raised THEN Raise
                   ELSE Ok(day_slots.value \o rest.value)
    ELSE Ok(<<>>)

(***************************************************************************)
(* Scheduler._slots_overlap and the inner loop of                          *)
(* Scheduler._filter_conflicting_slots, scanning the events from index i   *)
(* and stopping at the first conflict.                                     *)
(***************************************************************************)
_slots_overlap(slot, event) ==
    slot.start_time < event.end_time /\ slot.end_time > event.start_time

BufferBeforeNoGuard(slot, event, buffer_time) ==
    slot.start_time - event.end_time < buffer_time

BufferBefore(slot, event, buffer_time) ==
    /\ slot.start_time - event.end_time < buffer_time
    /\ slot.start_time > event.end_time

BufferAfter(slot, event, buffer_time) ==
    /\ event.start_time - slot.end_time < buffer_time
    /\ event.start_time > slot.end_time

RECURSIVE is_availableCancelledBlocks(_, _, _, _)
is_availableCancelledBlocks(slot, existing_events, i, buffer_time) ==
    IF i > Len(existing_events) THEN TRUE
    ELSE LET event == existing_events[i] IN
         IF _slots_overlap(slot, event) THEN FALSE
         ELSE IF BufferBefore(slot, event, buffer_time) THEN FALSE
         ELSE IF BufferAfter(slot, event, buffer_time) THEN FALSE
         ELSE is_availableCancelledBlocks(slot, existing_events, i + 1,
                                          buffer_time)

RECURSIVE is_availableIgnoresOverlap(_, _, _, _)
is_availableIgnoresOverlap(slot, existing_events, i, buffer_time) ==
    IF i > Len(existing_events) THEN TRUE
    ELSE LET event == existing_events[i] IN
         IF event.status = "cancelled"
         THEN is_availableIgnoresOverlap(slot, existing_events, i + 1,
                                         buffer_time)
         ELSE IF BufferBefore(slot, event, buffer_time) THEN FALSE
         ELSE IF BufferAfter(slot, event, buffer_time) THEN FALSE
         ELSE is_availableIgnoresOverlap(slot, existing_events, i + 1,
                                         buffer_time)

RECURSIVE is_available(_, _, _, _)
is_available(slot, existing_events, i, buffer_time) ==
    IF i > Len(existing_events) THEN TRUE
    ELSE LET event == existing_events[i] IN
         IF event.status = "cancelled"
         THEN is_available(slot, existing_events, i + 1, buffer_time)
         ELSE IF _slots_overlap(slot, event) THEN FALSE
         ELSE IF BufferBefore(slot, event, buffer_time) THEN FALSE
         ELSE IF BufferAfter(slot, event, buffer_time) THEN FALSE
         ELSE is_available(slot, existing_events, i + 1, buffer_time)

_filter_conflicting_slots(slots, existing_events, preferences) ==
    SelectSeq(slots,
              LAMBDA slot : is_available(slot, existing_events, 1,
                                         preferences.buffer_time))

(***************************************************************************)
(* Scheduler.check_availability, lines 486-494: the scan of the aggregated *)
(* events from index i, returning False at the first non-cancelled event   *)
(* that overlaps the interval.                                             *)
(***************************************************************************)
RECURSIVE check_availabilityTouching(_, _, _, _)
check_availabilityTouching(start_time, end_time, existing_events, i) ==
    IF i > Len(existing_events) THEN TRUE
    ELSE LET event == existing_events[i] IN
         IF event.status = "cancelled"
         THEN check_availabilityTouching(start_time, end_time,
                                         existing_events, i + 1)
         ELSE IF start_time <= event.end_time /\ end_time >= event.start_time
         THEN FALSE
         ELSE check_availabilityTouching(start_time, end_time,
                                         existing_events, i + 1)

RECURSIVE check_availability(_, _, _, _)
check_availability(start_time, end_time, existing_events, i) ==
    IF i > Len(existing_events) THEN TRUE
    ELSE LET event == existing_events[i] IN
         IF event.status = "cancelled"
         THEN check_availability(start_time, end_time, existing_events, i + 1)
         ELSE IF start_time < event.end_time /\ end_time > event.start_time
         THEN FALSE
         ELSE check_availability(start_time, end_time, existing_events, i + 1)

(***************************************************************************)
(* Scheduler._calculate_slot_score, in units of 1/1440.                    *)
(***************************************************************************)
TimeBonusUnfloored(slot, preferred_time) ==
    IF IsNone(preferred_time) THEN 0
    ELSE Half - Abs(slot.start_time - Val(preferred_time))

TimeBonus(slot, preferred_time) ==
    IF IsNone(preferred_time) THEN 0
    ELSE Max(0, Half - Abs(slot.start_time - Val(preferred_time)))

CalculateSlotScoreNoMorningBonus(slot, preferred_time, preferences) ==
    LET slot_time == TimeOfDay(slot.start_time)
        hour == HourOf(slot.start_time)
        score ==
            Half
            + TimeBonus(slot, preferred_time)
            + (IF preferences.work_start_time <= slot_time
                  /\ slot_time <= preferences.work_end_time
               THEN Fifth ELSE 0)
            - (IF hour < 8 \/ hour > 17 THEN Fifth ELSE 0)
            - (IF 11 <= hour /\ hour <= 13 THEN Tenth ELSE 0)
            + (IF Weekday(DateOf(slot.start_time)) < 5 THEN Tenth ELSE 0)
    IN Max(0, Min(One, score))

_calculate_slot_score(slot, preferred_time, preferences) ==
    LET slot_time == TimeOfDay(slot.start_time)
        hour == HourOf(slot.start_time)
        score ==
            Half
            + TimeBonus(slot, preferred_time)
            + (IF preferences.work_start_time <= slot_time
                  /\ slot_time <= preferences.work_end_time
               THEN Fifth ELSE 0)
            + (IF hour < 12 THEN Tenth ELSE 0)
            - (IF hour < 8 \/ hour > 17 THEN Fifth ELSE 0)
            - (IF 11 <= hour /\ hour <= 13 THEN Tenth ELSE 0)
            + (IF Weekday(DateOf(slot.start_time)) < 5 THEN Tenth ELSE 0)
    IN Max(0, Min(One, score))

(***************************************************************************)
(* list.sort(key=confidence, reverse=True): a stable sort, descending.     *)
(***************************************************************************)
SortRankAscending(slots, i) ==
    1 + Cardinality({j \in 1..Len(slots) :
                        \/ slots[j].confidence < slots[i].confidence
                        \/ /\ slots[j].confidence = slots[i].confidence
                           /\ j < i})

SortRank(slots, i) ==
    1 + Cardinality({j \in 1..Len(slots) :
                        \/ slots[j].confidence > slots[i].confidence
                        \/ /\ slots[j].confidence = slots[i].confidence
                           /\ j < i})

SortByConfidenceDescTiesReversed(slots) ==
    LET rank == <<>> \o [i \in 1..Len(slots) |->
                   1 + Cardinality({j \in 1..Len(slots) :
                          \/ slots[j].confidence > slots[i].confidence
                          \/ /\ slots[j].confidence = slots[i].confidence
                             /\ j > i})]
    IN <<>> \o [k \in 1..Len(slots) |->
                   slots[CHOOSE i \in 1..Len(slots) : rank[i] = k]]

SortByConfidenceDesc(slots) ==
    LET rank == <<>> \o [i \in 1..Len(slots) |-> SortRank(slots, i)]
    IN <<>> \o [k \in 1..Len(slots) |->
                   slots[CHOOSE i \in 1..Len(slots) : rank[i] = k]]

(***************************************************************************)
(* Scheduler._score_time_slots: rewrite each confidence, then sort.        *)
(***************************************************************************)
Rescore(slot, preferred_time, preferences) ==
    [slot EXCEPT !.confidence =
        Min(_calculate_slot_score(slot, preferred_time, preferences), One)]

_score_time_slots(slots, preferred_time, preferences) ==
    LET scored == <<>> \o [i \in 1..Len(slots) |->
                              Rescore(slots[i], preferred_time, preferences)]
    IN SortByConfidenceDesc(scored)

TruncateLast(s, n) == SubSeq(s, Len(s) - Min(Len(s), n) + 1, Len(s))

Truncate(s, n) == SubSeq(s, 1, Min(Len(s), n))

(***************************************************************************)
(* Scheduler._dict_to_event: an inline dictionary carries its times as     *)
(* optional (day, hour, minute) triples; a missing or unparseable time, an *)
(* unknown status, or end_time <= start_time (Event's validator) raises.   *)
(***************************************************************************)
ParseTime(t) == At(t[1], t[2], t[3])

_dict_to_event(event_dict) ==
    IF IsNone(event_dict.start_time) \/ IsNone(event_dict.end_time)
    THEN Raise
    ELSE IF event_dict.status \notin Statuses
    THEN Raise
    ELSE IF ParseTime(Val(event_dict.end_time))
                <= ParseTime(Val(event_dict.start_time))
    THEN Raise
    ELSE Ok(Event(event_dict.event_id,
                  ParseTime(Val(event_dict.start_time)),
                  ParseTime(Val(event_dict.end_time)),
                  event_dict.status))

ContextEvents(dicts) ==
    IF \E i \in 1..Len(dicts) : _dict_to_event(dicts[i]).raised
    THEN Raise
    ELSE Ok([i \in 1..Len(dicts) |-> _dict_to_event(dicts[i]).value])

(***************************************************************************)
(* Inputs.                                                                 *)
(***************************************************************************)
SeqsUpTo(S, n) == UNION {[1..k -> S] : k \in 0..n}

E1 == Event("e1", At(0, 10, 0), At(0, 11, 0), "scheduled")
E2 == Event("e2", At(0, 11, 0), At(0, 11, 20), "rescheduled")
E3 == Event("e3", At(0, 14, 0), At(0, 15, 0), "cancelled")
E4 == Event("e4", At(0, 12, 35), At(0, 12, 40), "completed")
EventPool == {E1, E2, E3, E4}
GooglePool == {E1, E3}
OutlookPool == {E1, E2}

D4 == [event_id |-> "e4", start_time |-> Some(<<0, 12, 35>>),
       end_time |-> Some(<<0, 12, 40>>), status |-> "completed"]
DBad == [event_id |-> "bad", start_time |-> None,
         end_time |-> Some(<<0, 9, 30>>), status |-> "scheduled"]
InlinePool == {D4, DBad}

S9 == TimeSlot(At(0, 9, 0), At(0, 10, 0), BaseConfidence)
S10 == TimeSlot(At(0, 10, 0), At(0, 11, 0), BaseConfidence)
S1130 == TimeSlot(At(0, 11, 30), At(0, 12, 30), BaseConfidence)
S14 == TimeSlot(At(0, 14, 0), At(0, 15, 0), BaseConfidence)
S15 == TimeSlot(At(0, 15, 0), At(0, 16, 0), BaseConfidence)
S19 == TimeSlot(At(0, 19, 0), At(0, 20, 0), BaseConfidence)
SlotPool == {S9, S10, S1130, S14, S15, S19}

Durations == {0 - 60, 0, 60, 120}
Buffers == {0, 15}
PreferredTimes == {None, Some(At(0, 14, 0))}
PreferencesSet ==
    {UserPreferences(9 * 60, 17 * 60, 15),
     UserPreferences(9 * 60, 17 * 60, 0),
     UserPreferences(9 * 60, 10 * 60, 15)}
DateRanges ==
    {<<Some(0), Some(0), 0>>, <<Some(0), Some(1), 0>>,
     <<Some(5), Some(6), 0>>, <<Some(1), Some(0), 0>>,
     <<Some(4), None, 0>>, <<None, None, 3>>}
ContextDateRanges ==
    {<<Some(0), Some(0), 0>>, <<Some(0), Some(1), 0>>,
     <<Some(5), Some(6), 0>>, <<Some(4), Some(7), 0>>}
Todays == {0, 3}
Providers == {"google", "outlook", "apple"}

NoPreferences == UserPreferences(0, 0, 0)

EmptyCall ==
    [duration |-> 0, preferred_time |-> None, has_context |-> FALSE,
     preferences |-> NoPreferences, existing_events |-> <<>>,
     start_date |-> None, end_date |-> None, exclude_weekends |-> TRUE,
     today |-> 0, calendar_provider |-> "google", new_duration |-> None,
     slots |-> <<>>, events |-> <<>>, service |-> FALSE,
     start_time |-> 0, end_time |-> 0,
     meeting_type |-> "", attendee_count |-> 0, user_preferences |-> None]

NoFind ==
    [duration |-> 0, preferred_time |-> None, preferences |-> NoPreferences,
     has_context |-> FALSE, existing_events |-> <<>>,
     start_date |-> 0, end_date |-> 0, exclude_weekends |-> TRUE]

NoReq ==
    [attempt |-> 0, responses |-> <<>>, reauths |-> 0, waits |-> <<>>,
     fetched |-> FALSE, items |-> <<>>]

(***************************************************************************)
(* Scheduler.find_available_slots, lines 38-45: defaults of the date range *)
(* and of the preferences.                                                 *)
(***************************************************************************)
ResolveFind(c) ==
    LET start == IF IsNone(c.start_date) THEN c.today ELSE Val(c.start_date)
    IN [duration |-> c.duration,
        preferred_time |-> c.preferred_time,
        preferences |-> IF c.has_context THEN c.preferences
                        ELSE DefaultPreferences,
        has_context |-> c.has_context,
        existing_events |-> c.existing_events,
        start_date |-> start,
        end_date |-> IF IsNone(c.end_date) THEN start + DefaultLookAheadDays
                     ELSE Val(c.end_date),
        exclude_weekends |-> c.exclude_weekends]

(***************************************************************************)
(* Scheduler.find_available_slots, lines 52-72: everything after the       *)
(* aggregation returned.  An exception of the generator is caught by the   *)
(* method's except clause, which returns [].                               *)
(***************************************************************************)
find_available_slots(f, existing_events) ==
    LET gen == _generate_potential_slots(f.start_date, f.end_date, f.duration,
                                         f.preferences, f.exclude_weekends)
    IN IF gen.raised
       THEN [caught |-> TRUE, potential |-> <<>>, available |-> <<>>,
             scored |-> <<>>, returned |-> <<>>]
       ELSE LET available == _filter_conflicting_slots(
                                 gen.value, existing_events, f.preferences)
                scored == _score_time_slots(available, f.preferred_time,
                                            f.preferences)
            IN [caught |-> FALSE, potential |-> gen.value,
                available |-> available, scored |-> scored,
                returned |-> Truncate(scored, max_suggestions)]

(***************************************************************************)
(* Initial states: one call of one operation, its arguments drawn from the *)
(* input sets.                                                             *)
(***************************************************************************)
InitRest ==
    /\ all_events = <<>>
    /\ potential_slots = <<>>
    /\ available_slots = <<>>
    /\ scored_slots = <<>>
    /\ result = <<>>
    /\ ret_bool = FALSE
    /\ outcome = "none"
    /\ logged = <<>>
    /\ collab_calls = <<>>
    /\ req = NoReq

InitFind ==
    /\ op = "find_available_slots"
    /\ pc = "google"
    /\ \E d \in Durations, p \in PreferredTimes, w \in BOOLEAN :
          \/ \E r \in DateRanges :
                call = [EmptyCall EXCEPT !.duration = d,
                           !.preferred_time = p,
                           !.start_date = r[1], !.end_date = r[2],
                           !.exclude_weekends = w, !.today = r[3]]
          \/ \E r \in ContextDateRanges, pr \in PreferencesSet,
                ds \in SeqsUpTo(InlinePool, MaxInline) :
                call = [EmptyCall EXCEPT !.duration = d,
                           !.preferred_time = p, !.has_context = TRUE,
                           !.preferences = pr, !.existing_events = ds,
                           !.start_date = r[1], !.end_date = r[2],
                           !.exclude_weekends = w, !.today = r[3]]
    /\ find = ResolveFind(call)
    /\ InitRest

InitGetExistingEvents ==
    /\ op = "_get_existing_events"
    /\ pc = "google"
    /\ \/ call = [EmptyCall EXCEPT !.start_date = Some(0),
                                   !.end_date = Some(0)]
       \/ \E ds \in SeqsUpTo(InlinePool, MaxInline + 1) :
             call = [EmptyCall EXCEPT !.has_context = TRUE,
                        !.preferences = DefaultPreferences,
                        !.existing_events = ds,
                        !.start_date = Some(0), !.end_date = Some(0)]
    /\ find = ResolveFind(call)
    /\ InitRest

InitFilter ==
    /\ op = "_filter_conflicting_slots"
    /\ pc = "call"
    /\ \E sl \in SeqsUpTo(SlotPool, MaxSlots),
          ev \in SeqsUpTo(EventPool, MaxEvents), b \in Buffers :
          call = [EmptyCall EXCEPT !.slots = sl, !.events = ev,
                     !.preferences = UserPreferences(9 * 60, 17 * 60, b)]
    /\ find = NoFind
    /\ InitRest

InitScore ==
    /\ op = "_score_time_slots"
    /\ pc = "call"
    /\ \E sl \in SeqsUpTo(SlotPool, MaxSlots), p \in PreferredTimes :
          call = [EmptyCall EXCEPT !.slots = sl, !.preferred_time = p,
                     !.preferences = UserPreferences(9 * 60, 17 * 60, 15)]
    /\ find = NoFind
    /\ InitRest

InitGenerate ==
    /\ op = "_generate_potential_slots"
    /\ pc = "call"
    /\ \E d \in Durations \cup {45, 8 * 60}, r \in DateRanges,
          pr \in PreferencesSet, w \in BOOLEAN :
          /\ ~IsNone(r[1])
          /\ ~IsNone(r[2])
          /\ call = [EmptyCall EXCEPT !.duration = d, !.has_context = TRUE,
                        !.preferences = pr, !.start_date = r[1],
                        !.end_date = r[2], !.exclude_weekends = w]
    /\ find = NoFind
    /\ InitRest

DayDurations == {0, 15, 45, 60, 120, 8 * 60, 9 * 60}
TargetDates == {0, 5, 8}

InitGenerateDay ==
    /\ op = "_generate_day_slots"
    /\ pc = "call"
    /\ \E d \in DayDurations, t \in TargetDates, pr \in PreferencesSet :
          call = [EmptyCall EXCEPT !.duration = d, !.has_context = TRUE,
                     !.preferences = pr, !.start_date = Some(t),
                     !.end_date = Some(t)]
    /\ find = NoFind
    /\ InitRest

InitCancel ==
    /\ op = "cancel_event"
    /\ pc = "dispatch"
    /\ \E p \in Providers :
          call = [EmptyCall EXCEPT !.calendar_provider = p]
    /\ find = NoFind
    /\ InitRest

(***************************************************************************)
(* check_availability(start_time, end_time, user_context): the intervals   *)
(* asked about, as <<start, end>>.                                         *)
(***************************************************************************)
Intervals ==
    {<<At(0, 9, 0), At(0, 10, 0)>>, <<At(0, 10, 0), At(0, 11, 0)>>,
     <<At(0, 11, 0), At(0, 12, 0)>>, <<At(0, 11, 20), At(0, 12, 35)>>,
     <<At(0, 12, 0), At(0, 12, 30)>>, <<At(0, 14, 0), At(0, 15, 0)>>,
     <<At(0, 10, 30), At(0, 10, 30)>>, <<At(0, 16, 0), At(1, 9, 0)>>,
     <<At(0, 11, 20), At(0, 12, 30)>>}

InitCheckAvailability ==
    /\ op = "check_availability"
    /\ pc = "google"
    /\ \E iv \in Intervals :
          \/ call = [EmptyCall EXCEPT !.start_time = iv[1],
                        !.end_time = iv[2],
                        !.start_date = Some(DateOf(iv[1])),
                        !.end_date = Some(DateOf(iv[2]))]
          \/ \E ds \in SeqsUpTo(InlinePool, MaxInline) :
                call = [EmptyCall EXCEPT !.start_time = iv[1],
                           !.end_time = iv[2], !.has_context = TRUE,
                           !.preferences = DefaultPreferences,
                           !.existing_events = ds,
                           !.start_date = Some(DateOf(iv[1])),
                           !.end_date = Some(DateOf(iv[2]))]
    /\ find = ResolveFind(call)
    /\ InitRest

NewDurations == {None, Some(0), Some(120)}
GetEventPool == {E1, E3}

InitSuggest ==
    /\ op = "suggest_reschedule_options"
    /\ pc = "dispatch"
    /\ \E p \in Providers, n \in NewDurations, t \in Todays :
          call = [EmptyCall EXCEPT !.calendar_provider = p,
                     !.new_duration = n, !.today = t]
    /\ find = NoFind
    /\ InitRest

(***************************************************************************)
(* What happens, without a further suspension point, once                  *)
(* _get_existing_events has its list: the aggregator called on its own     *)
(* returns it; find_available_slots (also when it runs on behalf of        *)
(* suggest_reschedule_options, which returns what it returned) goes on to  *)
(* generate, filter, score and truncate.                                   *)
(***************************************************************************)
AfterAggregation(events, lg) ==
    /\ all_events' = events
    /\ pc' = "done"
    /\ outcome' = "returned"
    /\ IF op = "_get_existing_events"
       THEN /\ result' = events
            /\ logged' = lg
            /\ UNCHANGED <<potential_slots, available_slots, scored_slots,
                           ret_bool>>
       ELSE IF op = "check_availability"
       THEN /\ ret_bool' = check_availability(call.start_time,
                                              call.end_time, events, 1)
            /\ logged' = lg
            /\ UNCHANGED <<potential_slots, available_slots, scored_slots,
                           result>>
       ELSE \E r \in {find_available_slots(find, events)} :
            /\ potential_slots' = r.potential
            /\ available_slots' = r.available
            /\ scored_slots' = r.scored
            /\ result' = r.returned
            /\ logged' = IF r.caught
                         THEN Append(lg, "Failed to find available slots")
                         ELSE lg
            /\ UNCHANGED ret_bool
    /\ UNCHANGED <<op, call, find, req>>

(***************************************************************************)
(* Scheduler._get_existing_events: the two collaborator calls and the      *)
(* conversion of the inline events, all inside one try block whose except  *)
(* clause logs and falls through to `return all_events`.                   *)
(***************************************************************************)
GoogleGetEventsReturnsActiveOnly ==
    /\ pc = "google"
    /\ \E google_events \in SeqsUpTo(GooglePool, MaxProviderEvents) :
          /\ all_events' =
                all_events \o SelectSeq(google_events,
                                        LAMBDA e : e.status # "cancelled")
          /\ collab_calls' = Append(collab_calls,
                                    Called(<<"google", "get_events">>,
                                           Ok(google_events)))
    /\ pc' = "outlook"
    /\ UNCHANGED <<op, call, potential_slots, available_slots, scored_slots,
                   result, ret_bool, outcome, logged, find, req>>

GoogleGetEventsReturns ==
    /\ pc = "google"
    /\ \E google_events \in SeqsUpTo(GooglePool, MaxProviderEvents) :
          /\ all_events' = all_events \o google_events
          /\ collab_calls' = Append(collab_calls,
                                    Called(<<"google", "get_events">>,
                                           Ok(google_events)))
    /\ pc' = "outlook"
    /\ UNCHANGED <<op, call, potential_slots, available_slots, scored_slots,
                   result, ret_bool, outcome, logged, find, req>>

GoogleGetEventsRaises ==
    /\ pc = "google"
    /\ collab_calls' = Append(collab_calls,
                              Called(<<"google", "get_events">>, Raise))
    /\ AfterAggregation(all_events,
                        Append(logged, "Failed to fetch existing events"))

OutlookGetEventsReturns ==
    /\ pc = "outlook"
    /\ \E outlook_events \in SeqsUpTo(OutlookPool, MaxProviderEvents) :
          /\ collab_calls' = Append(collab_calls,
                                    Called(<<"outlook", "get_events">>,
                                           Ok(outlook_events)))
          /\ LET fetched == all_events \o outlook_events
                 context_events ==
                     IF find.has_context /\ find.existing_events # <<>>
                     THEN ContextEvents(find.existing_events)
                     ELSE Ok(<<>>)
             IN IF context_events.raised
                THEN AfterAggregation(
                         fetched,
                         Append(logged, "Failed to fetch existing events"))
                ELSE AfterAggregation(fetched \o context_events.value,
                                      logged)

OutlookGetEventsRaises ==
    /\ pc = "outlook"
    /\ collab_calls' = Append(collab_calls,
                              Called(<<"outlook", "get_events">>, Raise))
    /\ AfterAggregation(all_events,
                        Append(logged, "Failed to fetch existing events"))

(***************************************************************************)
(* Direct calls of the pure stages.                                        *)
(***************************************************************************)
Finish(value, how) ==
    /\ result' = value
    /\ outcome' = how
    /\ pc' = "done"

FilterConflictingSlots ==
    /\ op = "_filter_conflicting_slots"
    /\ pc = "call"
    /\ LET kept == _filter_conflicting_slots(call.slots, call.events,
                                             call.preferences) IN
       /\ available_slots' = kept
       /\ Finish(kept, "returned")
    /\ UNCHANGED <<op, call, all_events, potential_slots, scored_slots,
                   ret_bool, logged, find, collab_calls, req>>

ScoreTimeSlots ==
    /\ op = "_score_time_slots"
    /\ pc = "call"
    /\ LET scored == _score_time_slots(call.slots, call.preferred_time,
                                       call.preferences) IN
       /\ scored_slots' = scored
       /\ Finish(scored, "returned")
    /\ UNCHANGED <<op, call, all_events, potential_slots, available_slots,
                   ret_bool, logged, find, collab_calls, req>>

GeneratePotentialSlots ==
    /\ op = "_generate_potential_slots"
    /\ pc = "call"
    /\ LET gen == _generate_potential_slots(
                      Val(call.start_date), Val(call.end_date), call.duration,
                      call.preferences, call.exclude_weekends) IN
       /\ potential_slots' = gen.value
       /\ Finish(gen.value, IF gen.raised THEN "raised" ELSE "returned")
    /\ UNCHANGED <<op, call, all_events, available_slots, scored_slots,
                   ret_bool, logged, find, collab_calls, req>>

GenerateDaySlots ==
    /\ op = "_generate_day_slots"
    /\ pc = "call"
    /\ LET day == _generate_day_slots(Val(call.start_date), call.duration,
                                      call.preferences) IN
       /\ potential_slots' = day.value
       /\ Finish(day.value, IF day.raised THEN "raised" ELSE "returned")
    /\ UNCHANGED <<op, call, all_events, available_slots, scored_slots,
                   ret_bool, logged, find, collab_calls, req>>

(***************************************************************************)
(* Scheduler.cancel_event.                                                 *)
(***************************************************************************)
KnownProvider(p) == p = "google" \/ p = "outlook"

CancelEventUnknownProvider ==
    /\ op = "cancel_event"
    /\ pc = "dispatch"
    /\ ~KnownProvider(call.calendar_provider)
    /\ ret_bool' = FALSE
    /\ logged' = Append(logged, "Failed to cancel event")
    /\ Finish(<<>>, "returned")
    /\ UNCHANGED <<op, call, all_events, potential_slots, available_slots,
                   scored_slots, find, collab_calls, req>>

CancelEventCollaboratorReturns ==
    /\ op = "cancel_event"
    /\ pc = "dispatch"
    /\ KnownProvider(call.calendar_provider)
    /\ \E success \in BOOLEAN :
          /\ ret_bool' = success
          /\ collab_calls' = Append(collab_calls,
                                    Called(<<call.calendar_provider,
                                             "cancel_event">>,
                                           Ok(<<success>>)))
    /\ Finish(<<>>, "returned")
    /\ UNCHANGED <<op, call, all_events, potential_slots, available_slots,
                   scored_slots, logged, find, req>>

CancelEventCollaboratorRaises ==
    /\ op = "cancel_event"
    /\ pc = "dispatch"
    /\ KnownProvider(call.calendar_provider)
    /\ collab_calls' = Append(collab_calls,
                              Called(<<call.calendar_provider,
                                       "cancel_event">>, Raise))
    /\ ret_bool' = FALSE
    /\ logged' = Append(logged, "Failed to cancel event")
    /\ Finish(<<>>, "returned")
    /\ UNCHANGED <<op, call, all_events, potential_slots, available_slots,
                   scored_slots, find, req>>

(***************************************************************************)
(* Scheduler.suggest_reschedule_options, up to its call of                 *)
(* find_available_slots.  Every exception ends in `return []`.             *)
(***************************************************************************)
SuggestFails ==
    /\ logged' = Append(logged, "Failed to suggest reschedule options")
    /\ Finish(<<>>, "returned")
    /\ UNCHANGED <<op, call, all_events, potential_slots, available_slots,
                   scored_slots, ret_bool, find, req>>

RescheduleDurationOfEvent(new_duration, original_event) ==
    original_event.end_time - original_event.start_time

RescheduleDuration(new_duration, original_event) ==
    IF ~IsNone(new_duration) /\ Val(new_duration) # 0
    THEN Val(new_duration)
    ELSE original_event.end_time - original_event.start_time

SuggestUnknownProvider ==
    /\ op = "suggest_reschedule_options"
    /\ pc = "dispatch"
    /\ ~KnownProvider(call.calendar_provider)
    /\ UNCHANGED collab_calls
    /\ SuggestFails

SuggestGetEventReturns ==
    /\ op = "suggest_reschedule_options"
    /\ pc = "dispatch"
    /\ KnownProvider(call.calendar_provider)
    /\ \E original_event \in GetEventPool :
          /\ collab_calls' = Append(collab_calls,
                                    Called(<<call.calendar_provider,
                                             "get_event">>,
                                           Ok(<<original_event>>)))
          /\ find' = [duration |-> RescheduleDuration(call.new_duration,
                                                      original_event),
                      preferred_time |-> Some(original_event.start_time),
                      preferences |-> DefaultPreferences,
                      has_context |-> FALSE,
                      existing_events |-> <<>>,
                      start_date |-> call.today,
                      end_date |-> call.today + RescheduleLookAheadDays,
                      exclude_weekends |-> TRUE]
    /\ pc' = "google"
    /\ UNCHANGED <<op, call, all_events, potential_slots, available_slots,
                   scored_slots, result, ret_bool, outcome, logged, req>>

SuggestGetEventReturnsNone ==
    /\ op = "suggest_reschedule_options"
    /\ pc = "dispatch"
    /\ KnownProvider(call.calendar_provider)
    /\ collab_calls' = Append(collab_calls,
                              Called(<<call.calendar_provider,
                                       "get_event">>, Ok(<<>>)))
    /\ SuggestFails

SuggestGetEventRaises ==
    /\ op = "suggest_reschedule_options"
    /\ pc = "dispatch"
    /\ KnownProvider(call.calendar_provider)
    /\ collab_calls' = Append(collab_calls,
                              Called(<<call.calendar_provider,
                                       "get_event">>, Raise))
    /\ SuggestFails

(***************************************************************************)
(* Calendar collaborators: what the providers send.  A raw time is         *)
(* <<kind, day, hour, minute>> with kind "dateTime", "date" or "none"      *)
(* (key absent); "bad" is a dateTime string fromisoformat cannot parse.    *)
(***************************************************************************)
RawTime(kind, d, h, m) == <<kind, d, h, m>>

RawItem(id, start, end, status) ==
    [id |-> id, start |-> start, end |-> end, status |-> status]

G1 == RawItem("g1", RawTime("dateTime", 0, 10, 0),
                 RawTime("dateTime", 0, 11, 0), "confirmed")
G2 == RawItem("g2", RawTime("none", 0, 0, 0),
                 RawTime("dateTime", 0, 11, 0), "confirmed")
G3 == RawItem("g3", RawTime("date", 1, 0, 0),
                 RawTime("none", 0, 0, 0), "cancelled")
GoogleItems == {G1, G2, G3}

O1 == RawItem("o1", RawTime("dateTime", 0, 10, 0),
                 RawTime("dateTime", 0, 11, 0), "active")
O2 == RawItem("o2", RawTime("dateTime", 0, 12, 0),
                 RawTime("none", 0, 0, 0), "active")
O3 == RawItem("o3", RawTime("dateTime", 0, 14, 0),
                 RawTime("dateTime", 0, 15, 0), "isCancelled")
OutlookItems == {O1, O2, O3}

(***************************************************************************)
(* GoogleCalendarAPI._convert_google_event: None (here Raise) when the     *)
(* start is missing or anything in the conversion raises.  A date-only end *)
(* is 23:59:59 of that day, which is 23:59 on the minute grid.             *)
(***************************************************************************)
_convert_google_event(google_event) ==
    LET start == google_event.start
        end == google_event.end
    IN IF start[1] \notin {"dateTime", "date"} THEN Raise
       ELSE LET start_time == IF start[1] = "dateTime"
                              THEN At(start[2], start[3], start[4])
                              ELSE At(start[2], 0, 0)
                end_time == IF end[1] = "dateTime"
                            THEN At(end[2], end[3], end[4])
                            ELSE IF end[1] = "date"
                            THEN At(end[2], 23, 59)
                            ELSE start_time + 60
            IN IF end[1] = "bad" \/ end_time <= start_time THEN Raise
               ELSE Ok(Event(google_event.id, start_time, end_time,
                             IF google_event.status = "cancelled"
                             THEN "cancelled" ELSE "scheduled"))

(***************************************************************************)
(* OutlookAPI._convert_outlook_event: both dateTime strings are required.  *)
(***************************************************************************)
_convert_outlook_event(outlook_event) ==
    LET start == outlook_event.start
        end == outlook_event.end
    IN IF start[1] # "dateTime" \/ end[1] # "dateTime" THEN Raise
       ELSE IF At(end[2], end[3], end[4]) <= At(start[2], start[3], start[4])
       THEN Raise
       ELSE Ok(Event(outlook_event.id,
                     At(start[2], start[3], start[4]),
                     At(end[2], end[3], end[4]),
                     IF outlook_event.status = "isCancelled"
                     THEN "cancelled" ELSE "scheduled"))

ConvertedGoogleEvents(items) ==
    LET kept == SelectSeq(items,
                          LAMBDA it : ~_convert_google_event(it).raised)
    IN <<>> \o [i \in 1..Len(kept) |-> _convert_google_event(kept[i]).value]

ConvertedOutlookEvents(items) ==
    LET kept == SelectSeq(items,
                          LAMBDA it : ~_convert_outlook_event(it).raised)
    IN <<>> \o [i \in 1..Len(kept) |->
                   _convert_outlook_event(kept[i]).value]

(***************************************************************************)
(* The retry loop shared by the two _make_request methods: the next        *)
(* iteration of `for attempt in range(self.max_retries)`, or, when the     *)
(* range is exhausted, the `raise Exception("Request failed after ...")`   *)
(* behind the loop, which get_events turns into `return []`.               *)
(***************************************************************************)
GetEventsFails ==
    /\ logged' = Append(logged, "Failed to get events")
    /\ Finish(<<>>, "returned")

BackoffConstant(attempt) == 1

Backoff(attempt) == Min(2 ^ attempt, BackoffCap)

NextAttempt(r) ==
    IF r.attempt + 1 < max_retries
    THEN /\ req' = [r EXCEPT !.attempt = r.attempt + 1]
         /\ UNCHANGED <<pc, result, outcome, logged>>
    ELSE /\ req' = r
         /\ GetEventsFails

RetryOrRaise(r) ==
    IF r.attempt < max_retries - 1
    THEN /\ req' = [r EXCEPT !.attempt = r.attempt + 1,
                             !.waits = Append(r.waits, 2 ^ r.attempt)]
         /\ UNCHANGED <<pc, result, outcome, logged>>
    ELSE /\ req' = r
         /\ GetEventsFails

CollabUnchanged ==
    UNCHANGED <<op, call, all_events, potential_slots, available_slots,
                scored_slots, ret_bool, find, collab_calls>>

Requested(response) ==
    [req EXCEPT !.responses = Append(req.responses, response)]

(***************************************************************************)
(* GoogleCalendarAPI.get_events with initialize and _make_request.         *)
(***************************************************************************)
InitGoogleGetEvents ==
    /\ op = "google.get_events"
    /\ \E service \in BOOLEAN :
          /\ call = [EmptyCall EXCEPT !.service = service]
          /\ pc = IF service THEN "request" ELSE "initialize"
    /\ find = NoFind
    /\ InitRest

GoogleInitializeSucceeds ==
    /\ op = "google.get_events"
    /\ pc = "initialize"
    /\ pc' = "request"
    /\ UNCHANGED <<result, outcome, logged, req>>
    /\ CollabUnchanged

GoogleInitializeFails ==
    /\ op = "google.get_events"
    /\ pc = "initialize"
    /\ GetEventsFails
    /\ UNCHANGED req
    /\ CollabUnchanged

GoogleRequestSucceeds ==
    /\ op = "google.get_events"
    /\ pc = "request"
    /\ \E items \in SeqsUpTo(GoogleItems, MaxProviderEvents) :
          /\ req' = [Requested("200") EXCEPT !.fetched = TRUE, !.items = items]
          /\ Finish(ConvertedGoogleEvents(items), "returned")
    /\ UNCHANGED logged
    /\ CollabUnchanged

GoogleRateLimited ==
    /\ op = "google.get_events"
    /\ pc = "request"
    /\ NextAttempt([Requested("429") EXCEPT
                       !.waits = Append(req.waits, Backoff(req.attempt))])
    /\ CollabUnchanged

GoogleUnauthorized ==
    /\ op = "google.get_events"
    /\ pc = "request"
    /\ NextAttempt([Requested("401") EXCEPT !.reauths = req.reauths + 1])
    /\ CollabUnchanged

GoogleReauthenticationRaises ==
    /\ op = "google.get_events"
    /\ pc = "request"
    /\ req' = [Requested("401") EXCEPT !.reauths = req.reauths + 1]
    /\ GetEventsFails
    /\ CollabUnchanged

GoogleHttpError ==
    /\ op = "google.get_events"
    /\ pc = "request"
    /\ req' = Requested("500")
    /\ GetEventsFails
    /\ CollabUnchanged

GoogleRequestException ==
    /\ op = "google.get_events"
    /\ pc = "request"
    /\ RetryOrRaise(Requested("exception"))
    /\ CollabUnchanged

(***************************************************************************)
(* OutlookAPI.get_events with _make_request and _handle_response.          *)
(* _handle_response returns None after a 429, and after a 401 whose token  *)
(* refresh succeeded on an attempt that is not the last; _make_request     *)
(* returns that None, and get_events answers `not response` with [].       *)
(***************************************************************************)
InitOutlookGetEvents ==
    /\ op = "outlook.get_events"
    /\ pc = "request"
    /\ \E token \in BOOLEAN : call = [EmptyCall EXCEPT !.service = token]
    /\ find = NoFind
    /\ InitRest

OutlookRequestSucceeds ==
    /\ op = "outlook.get_events"
    /\ pc = "request"
    /\ \E items \in SeqsUpTo(OutlookItems, MaxProviderEvents) :
          /\ req' = [Requested("200") EXCEPT !.fetched = TRUE, !.items = items]
          /\ Finish(ConvertedOutlookEvents(items), "returned")
    /\ UNCHANGED logged
    /\ CollabUnchanged

OutlookNoContent ==
    /\ op = "outlook.get_events"
    /\ pc = "request"
    /\ req' = Requested("204")
    /\ Finish(<<>>, "returned")
    /\ UNCHANGED logged
    /\ CollabUnchanged

OutlookRateLimited ==
    /\ op = "outlook.get_events"
    /\ pc = "request"
    /\ \E retry_after \in {1, 60} :
          req' = [Requested("429") EXCEPT
                     !.waits = Append(req.waits, retry_after)]
    /\ Finish(<<>>, "returned")
    /\ UNCHANGED logged
    /\ CollabUnchanged

OutlookUnauthorizedRefreshed ==
    /\ op = "outlook.get_events"
    /\ pc = "request"
    /\ LET r == [Requested("401") EXCEPT !.reauths = req.reauths + 1] IN
       IF req.attempt < max_retries - 1
       THEN /\ req' = r
            /\ Finish(<<>>, "returned")
            /\ UNCHANGED logged
       ELSE RetryOrRaise(r)
    /\ CollabUnchanged

OutlookUnauthorizedRefreshFails ==
    /\ op = "outlook.get_events"
    /\ pc = "request"
    /\ RetryOrRaise([Requested("401") EXCEPT !.reauths = req.reauths + 1])
    /\ CollabUnchanged

OutlookRequestFails ==
    /\ op = "outlook.get_events"
    /\ pc = "request"
    /\ RetryOrRaise(Requested("exception"))
    /\ CollabUnchanged

(***************************************************************************)
(* Scheduler.create_event and Scheduler.update_event: one call of the      *)
(* named collaborator inside a try block whose except clause logs and      *)
(* re-raises.                                                              *)
(***************************************************************************)
BookingOps == {"create_event", "update_event"}

InitBooking ==
    /\ op \in BookingOps
    /\ pc = "dispatch"
    /\ \E p \in Providers :
          call = [EmptyCall EXCEPT !.calendar_provider = p]
    /\ find = NoFind
    /\ InitRest

BookingExceptReturns == "returned"

BookingExcept == "raised"

BookingFails ==
    /\ logged' = Append(logged, IF op = "create_event"
                                THEN "Failed to create event"
                                ELSE "Failed to update event")
    /\ Finish(<<>>, BookingExcept)
    /\ UNCHANGED <<op, call, all_events, potential_slots, available_slots,
                   scored_slots, ret_bool, find, req>>

BookingUnknownProvider ==
    /\ op \in BookingOps
    /\ pc = "dispatch"
    /\ ~KnownProvider(call.calendar_provider)
    /\ UNCHANGED collab_calls
    /\ BookingFails

BookingCollaboratorReturns ==
    /\ op \in BookingOps
    /\ pc = "dispatch"
    /\ KnownProvider(call.calendar_provider)
    /\ \E created_event \in GetEventPool :
          /\ collab_calls' = Append(collab_calls,
                                    Called(<<call.calendar_provider, op>>,
                                           Ok(<<created_event>>)))
          /\ Finish(<<created_event>>, "returned")
    /\ UNCHANGED <<op, call, all_events, potential_slots, available_slots,
                   scored_slots, ret_bool, logged, find, req>>

BookingCollaboratorRaises ==
    /\ op \in BookingOps
    /\ pc = "dispatch"
    /\ KnownProvider(call.calendar_provider)
    /\ collab_calls' = Append(collab_calls,
                              Called(<<call.calendar_provider, op>>, Raise))
    /\ BookingFails

(***************************************************************************)
(* Scheduler.get_optimal_meeting_duration.  Lower is str.lower() on the    *)
(* meeting types of the input set; user_preferences is None or the         *)
(* preferences' preferred_meeting_duration.  The returned integer is       *)
(* handed over as the one-element list <<duration>>.                       *)
(***************************************************************************)
MeetingTypes ==
    {"standup", "one_on_one", "team_meeting", "review", "presentation",
     "workshop", "all_hands", "Team_Meeting", "STANDUP", "lunch", ""}

Lower(meeting_type) ==
    CASE meeting_type = "Team_Meeting" -> "team_meeting"
      [] meeting_type = "STANDUP" -> "standup"
      [] OTHER -> meeting_type

type_adjustments ==
    [standup |-> 15, one_on_one |-> 30, team_meeting |-> 60, review |-> 90,
     presentation |-> 60, workshop |-> 120, all_hands |-> 60]

AttendeeAdjustmentInclusive(attendee_count) ==
    IF attendee_count >= 10 THEN 15
    ELSE IF attendee_count >= 5 THEN 10
    ELSE 0

AttendeeAdjustment(attendee_count) ==
    IF attendee_count > 10 THEN 15
    ELSE IF attendee_count > 5 THEN 10
    ELSE 0

get_optimal_meeting_duration(meeting_type, attendee_count, user_preferences) ==
    LET preferred == IF ~IsNone(user_preferences)
                     THEN Val(user_preferences).preferred_meeting_duration
                     ELSE 60
        base_duration ==
            IF Lower(meeting_type) \in DOMAIN type_adjustments
            THEN type_adjustments[Lower(meeting_type)]
            ELSE preferred
    IN base_duration + AttendeeAdjustment(attendee_count)

AttendeeCounts == {0, 1, 5, 6, 10, 11, 12}
PreferredDurations == {None, Some([preferred_meeting_duration |-> 60]),
                       Some([preferred_meeting_duration |-> 45])}

InitOptimalDuration ==
    /\ op = "get_optimal_meeting_duration"
    /\ pc = "call"
    /\ \E t \in MeetingTypes, n \in AttendeeCounts,
          u \in PreferredDurations :
          call = [EmptyCall EXCEPT !.meeting_type = t, !.attendee_count = n,
                     !.user_preferences = u]
    /\ find = NoFind
    /\ InitRest

GetOptimalMeetingDuration ==
    /\ op = "get_optimal_meeting_duration"
    /\ pc = "call"
    /\ Finish(<<get_optimal_meeting_duration(call.meeting_type,
                                             call.attendee_count,
                                             call.user_preferences)>>,
              "returned")
    /\ UNCHANGED <<op, call, all_events, potential_slots, available_slots,
                   scored_slots, ret_bool, logged, find, collab_calls, req>>

Init ==
    \/ InitFind
    \/ InitGetExistingEvents
    \/ InitFilter
    \/ InitScore
    \/ InitGenerate
    \/ InitGenerateDay
    \/ InitCancel
    \/ InitSuggest
    \/ InitGoogleGetEvents
    \/ InitOutlookGetEvents
    \/ InitBooking
    \/ InitCheckAvailability
    \/ InitOptimalDuration

Next ==
    \/ GoogleGetEventsReturns
    \/ GoogleGetEventsRaises
    \/ OutlookGetEventsReturns
    \/ OutlookGetEventsRaises
    \/ FilterConflictingSlots
    \/ ScoreTimeSlots
    \/ GeneratePotentialSlots
    \/ GenerateDaySlots
    \/ CancelEventUnknownProvider
    \/ CancelEventCollaboratorReturns
    \/ CancelEventCollaboratorRaises
    \/ SuggestUnknownProvider
    \/ SuggestGetEventReturns
    \/ SuggestGetEventReturnsNone
    \/ SuggestGetEventRaises
    \/ GoogleInitializeSucceeds
    \/ GoogleInitializeFails
    \/ GoogleRequestSucceeds
    \/ GoogleRateLimited
    \/ GoogleUnauthorized
    \/ GoogleReauthenticationRaises
    \/ GoogleHttpError
    \/ GoogleRequestException
    \/ OutlookRequestSucceeds
    \/ OutlookNoContent
    \/ OutlookRateLimited
    \/ OutlookUnauthorizedRefreshed
    \/ OutlookUnauthorizedRefreshFails
    \/ OutlookRequestFails
    \/ BookingUnknownProvider
    \/ BookingCollaboratorReturns
    \/ BookingCollaboratorRaises
    \/ GetOptimalMeetingDuration

Spec == Init /\ [][Next]_vars

(***************************************************************************)
(* Vocabulary of the properties.                                           *)
(***************************************************************************)
FindLike == op \in {"find_available_slots", "suggest_reschedule_options"}
FindRan ==
    /\ FindLike
    /\ pc = "done"
    /\ Len(collab_calls) > 0
    /\ collab_calls[Len(collab_calls)].method[2] = "get_events"
FindCaught ==
    \E i \in 1..Len(logged) : logged[i] = "Failed to find available slots"
FilterDirect == op = "_filter_conflicting_slots" /\ pc = "done"
FilterRan == FilterDirect \/ (FindRan /\ ~FindCaught)
FilterInput == IF FilterDirect THEN call.slots ELSE potential_slots
FilterEvents == IF FilterDirect THEN call.events ELSE all_events
FilterBuffer ==
    IF FilterDirect THEN call.preferences.buffer_time
    ELSE find.preferences.buffer_time
ScoreDirect == op = "_score_time_slots" /\ pc = "done"
ScoreRan == ScoreDirect \/ (FindRan /\ ~FindCaught)
GenerateDirect ==
    op = "_generate_potential_slots" /\ pc = "done" /\ outcome = "returned"
RequestedDuration == IF GenerateDirect THEN call.duration ELSE find.duration

Blocking(events) == {j \in 1..Len(events) : events[j].status # "cancelled"}

GapRespected(slot, event, buffer) ==
    \/ slot.end_time + buffer <= event.start_time
    \/ event.end_time + buffer <= slot.start_time

Rejects(slot, E, buffer) ==
    \/ slot.start_time < E.end_time /\ slot.end_time > E.start_time
    \/ slot.start_time > E.end_time
          /\ slot.start_time - E.end_time < buffer
    \/ E.start_time > slot.end_time
          /\ E.start_time - slot.end_time < buffer

Free(slot, events, buffer) ==
    \A j \in Blocking(events) : ~Rejects(slot, events[j], buffer)

NonIncreasing(slots) ==
    \A i \in 1..(Len(slots) - 1) :
        slots[i].confidence >= slots[i + 1].confidence

(***************************************************************************)
(* C1: every slot that survives _filter_conflicting_slots is separated     *)
(* from every non-cancelled event by a gap of at least buffer_time minutes *)
(* on both sides; in particular a slot ending exactly at an event's start  *)
(* is removed when buffer_time > 0.                                        *)
(***************************************************************************)
C1_BufferAdjacency ==
    FilterRan =>
        \A i \in 1..Len(available_slots) :
            \A j \in Blocking(FilterEvents) :
                GapRespected(available_slots[i], FilterEvents[j],
                             FilterBuffer)

(***************************************************************************)
(* C2: when _score_time_slots is given a preferred time and one of the     *)
(* candidates starts exactly at that instant, the first element of the     *)
(* returned list starts at the preferred instant.                          *)
(***************************************************************************)
C2_PreferredFirst ==
    (/\ ScoreDirect
     /\ ~IsNone(call.preferred_time)
     /\ \E i \in 1..Len(call.slots) :
           call.slots[i].start_time = Val(call.preferred_time))
    => result[1].start_time = Val(call.preferred_time)

(***************************************************************************)
(* C3: _filter_conflicting_slots returns exactly the subsequence, in input *)
(* order, of the slots that no non-cancelled event rejects by overlap, by  *)
(* the buffer before or by the buffer after; so no slot returned by        *)
(* find_available_slots is rejected by any event.                          *)
(***************************************************************************)
C3_FilterExact ==
    /\ FilterRan =>
          available_slots =
              SelectSeq(FilterInput,
                        LAMBDA s : Free(s, FilterEvents, FilterBuffer))
    /\ FilterDirect => result = available_slots
    /\ (FindRan /\ ~FindCaught) =>
          \A i \in 1..Len(result) :
              Free(result[i], all_events, find.preferences.buffer_time)

C3_Witness ==
    /\ FilterDirect
    /\ Len(call.slots) = 3
    /\ Len(result) = 1
    /\ FilterBuffer > 0
    /\ \E i \in 1..3 :
          /\ \A j \in Blocking(call.events) :
                ~_slots_overlap(call.slots[i], call.events[j])
          /\ ~Free(call.slots[i], call.events, FilterBuffer)

(***************************************************************************)
(* C4: every slot produced by _generate_potential_slots, and every slot    *)
(* returned by find_available_slots, ends exactly duration minutes after   *)
(* it starts, and after its start.                                         *)
(***************************************************************************)
HasDuration(slots, d) ==
    \A i \in 1..Len(slots) :
        /\ slots[i].end_time - slots[i].start_time = d
        /\ slots[i].end_time > slots[i].start_time

C4_DurationInvariant ==
    /\ (GenerateDirect \/ (FindRan /\ ~FindCaught)) =>
          HasDuration(potential_slots, RequestedDuration)
    /\ GenerateDirect => result = potential_slots
    /\ FindRan => HasDuration(result, find.duration)

C4_Witness ==
    /\ op = "find_available_slots"
    /\ FindRan
    /\ find.duration = 120
    /\ find.preferences.buffer_time = 15
    /\ Len(result) >= 1
    /\ Len(potential_slots) > Len(result)

(***************************************************************************)
(* C5: in every list returned by _score_time_slots and by                  *)
(* find_available_slots the confidence never increases along the list.     *)
(***************************************************************************)
C5_MonotonicRanking ==
    /\ ScoreRan => NonIncreasing(scored_slots)
    /\ ScoreDirect => result = scored_slots
    /\ FindRan => NonIncreasing(result)

C5_Witness ==
    /\ op = "find_available_slots"
    /\ FindRan
    /\ ~IsNone(find.preferred_time)
    /\ Len(result) >= 3
    /\ result[1].confidence > result[Len(result)].confidence
    /\ \E i \in 1..(Len(result) - 1) :
          result[i].start_time > result[i + 1].start_time

(***************************************************************************)
(* C6: find_available_slots called with duration <= 0, or with end_date    *)
(* before start_date, raises to its caller; it returns no list.            *)
(***************************************************************************)
InvalidFindInput ==
    \/ call.duration <= 0
    \/ find.end_date < find.start_date

C6_InvalidInputRejected ==
    (op = "find_available_slots" /\ pc = "done" /\ InvalidFindInput)
    => outcome = "raised"

(***************************************************************************)
(* C7: an exception raised inside find_available_slots is never reported   *)
(* to the caller as an empty result list.                                  *)
(***************************************************************************)
C7_FailureNotEmptyList ==
    (op = "find_available_slots" /\ pc = "done" /\ FindCaught)
    => ~(outcome = "returned" /\ result = <<>>)

(***************************************************************************)
(* C8: when one source of _get_existing_events fails, the call does not    *)
(* raise, both collaborators have been asked, and the returned list still  *)
(* holds the events of every source that did not fail.                     *)
(***************************************************************************)
Contains(list, events) ==
    \A i \in 1..Len(events) : \E k \in 1..Len(list) : list[k] = events[i]

InlineOf(f) ==
    IF f.has_context THEN ContextEvents(f.existing_events) ELSE Ok(<<>>)

AskedFor(provider) ==
    \E i \in 1..Len(collab_calls) :
        collab_calls[i].method = <<provider, "get_events">>

C8_PartialFailure ==
    (op = "_get_existing_events" /\ pc = "done")
    => /\ outcome = "returned"
       /\ AskedFor("google")
       /\ AskedFor("outlook")
       /\ \A i \in 1..Len(collab_calls) :
             ~collab_calls[i].raised => Contains(result, collab_calls[i].value)
       /\ ~InlineOf(find).raised => Contains(result, InlineOf(find).value)

(***************************************************************************)
(* C9: get_events of the Google and of the Outlook collaborator raises     *)
(* when the fetch failed; it returns a list, empty or not, only when the   *)
(* provider delivered its event list.                                      *)
(***************************************************************************)
CollaboratorDone ==
    op \in {"google.get_events", "outlook.get_events"} /\ pc = "done"

C9_FailureIsNotEmptyCalendar ==
    CollaboratorDone =>
        /\ ~req.fetched => outcome = "raised"
        /\ outcome = "returned" => req.fetched

(***************************************************************************)
(* C10: cancel_event and suggest_reschedule_options called with a provider *)
(* other than "google" or "outlook" raise to the caller instead of         *)
(* returning False or an empty list.                                       *)
(***************************************************************************)
C10_UnknownProviderRaises ==
    (/\ op \in {"cancel_event", "suggest_reschedule_options"}
     /\ pc = "done"
     /\ ~KnownProvider(call.calendar_provider))
    => outcome = "raised"

(***************************************************************************)
(* C11: create_event and update_event called with a provider other than    *)
(* "google" or "outlook" raise without calling any collaborator; when the  *)
(* named collaborator's call raises, the operation raises; in both cases   *)
(* no event is returned, and only the named provider is ever called, at    *)
(* most once.                                                              *)
(***************************************************************************)
BookingDone == op \in BookingOps /\ pc = "done"

C11_BookingErrorsPropagate ==
    BookingDone =>
        /\ ~KnownProvider(call.calendar_provider) =>
              collab_calls = <<>> /\ outcome = "raised" /\ result = <<>>
        /\ Len(collab_calls) <= 1
        /\ \A i \in 1..Len(collab_calls) :
              /\ collab_calls[i].method = <<call.calendar_provider, op>>
              /\ collab_calls[i].raised =>
                    outcome = "raised" /\ result = <<>>
              /\ ~collab_calls[i].raised =>
                    outcome = "returned" /\ result = collab_calls[i].value

C11_Witness ==
    /\ op = "create_event"
    /\ pc = "done"
    /\ call.calendar_provider = "google"
    /\ Len(collab_calls) = 1
    /\ collab_calls[1].raised
    /\ outcome = "raised"
    /\ logged = <<"Failed to create event">>

(***************************************************************************)
(* C12: find_available_slots returns at most max_suggestions slots; they   *)
(* are the head of the ranked survivors of the conflict filter, so every   *)
(* survivor that was left out has a confidence no higher than that of      *)
(* every returned slot.                                                    *)
(***************************************************************************)
SameInterval(a, b) ==
    a.start_time = b.start_time /\ a.end_time = b.end_time

C12_TopK ==
    FindRan =>
        /\ Len(result) <= max_suggestions
        /\ ~FindCaught =>
              /\ Len(result) = Min(Len(available_slots), max_suggestions)
              /\ Len(scored_slots) = Len(available_slots)
              /\ \A i \in 1..Len(available_slots) :
                    \E k \in 1..Len(scored_slots) :
                        SameInterval(available_slots[i], scored_slots[k])
              /\ \A j \in 1..Len(result) : result[j] = scored_slots[j]
              /\ \A i \in (Len(result) + 1)..Len(scored_slots) :
                    \A j \in 1..Len(result) :
                        scored_slots[i].confidence <= result[j].confidence

C12_Witness ==
    /\ op = "find_available_slots"
    /\ FindRan
    /\ Len(scored_slots) > max_suggestions
    /\ Len(result) = max_suggestions
    /\ result[max_suggestions].confidence
           > scored_slots[Len(scored_slots)].confidence
    /\ \E i \in 1..(max_suggestions - 1) :
          result[i].start_time > result[i + 1].start_time

(***************************************************************************)
(* C13: _score_time_slots keeps slots of equal confidence in their input   *)
(* order: its output is the rescored input rearranged by a permutation     *)
(* that never swaps two slots of equal confidence.  In the pipeline, where *)
(* the input is chronological, the returned order is therefore fixed by    *)
(* the inputs alone: descending confidence, then ascending start, each     *)
(* confidence being the score of the slot's own interval.                  *)
(***************************************************************************)
StableRearrangement(input, output, preferred_time, preferences) ==
    /\ Len(output) = Len(input)
    /\ \/ Len(input) = 0
       \/ \E pi \in Permutations(1..Len(input)) :
             /\ \A k \in 1..Len(input) :
                   output[k] = Rescore(input[pi[k]], preferred_time,
                                       preferences)
             /\ \A k \in 1..Len(input) : \A l \in (k + 1)..Len(input) :
                   output[k].confidence = output[l].confidence
                       => pi[k] < pi[l]

TiesChronological(slots) ==
    \A i \in 1..(Len(slots) - 1) :
        \/ slots[i].confidence > slots[i + 1].confidence
        \/ /\ slots[i].confidence = slots[i + 1].confidence
           /\ slots[i].start_time < slots[i + 1].start_time

ScoredByInterval(slots, f) ==
    \A i \in 1..Len(slots) :
        slots[i].confidence =
            _calculate_slot_score(slots[i], f.preferred_time, f.preferences)

C13_StableRanking ==
    /\ ScoreDirect =>
          StableRearrangement(call.slots, result, call.preferred_time,
                              call.preferences)
    /\ (FindRan /\ ~FindCaught) =>
          /\ TiesChronological(scored_slots)
          /\ TiesChronological(result)
          /\ ScoredByInterval(result, find)

C13_Witness ==
    /\ ScoreDirect
    /\ IsNone(call.preferred_time)
    /\ Len(result) = 3
    /\ result[1].start_time # call.slots[1].start_time
    /\ \E i \in 1..2 :
          /\ result[i].confidence = result[i + 1].confidence
          /\ result[i].start_time > result[i + 1].start_time

C13_PipelineWitness ==
    /\ op = "find_available_slots"
    /\ FindRan
    /\ IsNone(find.preferred_time)
    /\ Len(all_events) > 0
    /\ Len(result) = max_suggestions
    /\ \E i \in 1..(Len(result) - 1) :
          result[i].confidence = result[i + 1].confidence
    /\ \E i \in 1..(Len(result) - 1) :
          result[i].confidence > result[i + 1].confidence

(***************************************************************************)
(* C14: every slot returned by find_available_slots lies on one date of    *)
(* [start_date, end_date], starts at or after work_start_time and ends at  *)
(* or before work_end_time of that date; with exclude_weekends that date   *)
(* is a Monday to Friday.                                                  *)
(***************************************************************************)
SaturdayOrSunday(d) == d % 7 \in {5, 6}

WithinWorkingHours(slot, f) ==
    LET d == slot.start_time \div MinutesPerDay IN
    /\ f.start_date <= d
    /\ d <= f.end_date
    /\ d * MinutesPerDay + f.preferences.work_start_time <= slot.start_time
    /\ slot.end_time <= d * MinutesPerDay + f.preferences.work_end_time

C14_WorkingHours ==
    FindRan =>
        \A i \in 1..Len(result) :
            /\ WithinWorkingHours(result[i], find)
            /\ find.exclude_weekends =>
                  ~SaturdayOrSunday(result[i].start_time \div MinutesPerDay)

C14_Witness ==
    /\ op = "find_available_slots"
    /\ FindRan
    /\ find.exclude_weekends
    /\ Len(all_events) > 0
    /\ \E i \in 1..Len(result) :
          result[i].end_time =
              (result[i].start_time \div MinutesPerDay) * MinutesPerDay
                  + find.preferences.work_end_time
    /\ \E i \in 1..Len(result), j \in 1..Len(result) :
          \E d \in find.start_date..find.end_date :
              /\ SaturdayOrSunday(d)
              /\ result[i].start_time \div MinutesPerDay < d
              /\ result[j].start_time \div MinutesPerDay > d

(***************************************************************************)
(* C15: for a date range made only of Saturdays and Sundays,               *)
(* find_available_slots returns the empty list when exclude_weekends is    *)
(* set, and a non-empty list when it is not set, no event blocks and the   *)
(* duration fits into the working window; with exclude_weekends no         *)
(* generated slot lies on a Saturday or a Sunday.                          *)
(***************************************************************************)
WeekendOnly(f) ==
    /\ f.start_date <= f.end_date
    /\ \A d \in f.start_date..f.end_date : SaturdayOrSunday(d)

DurationFits(f) ==
    /\ f.duration > 0
    /\ f.duration
           <= f.preferences.work_end_time - f.preferences.work_start_time

C15_WeekendExclusion ==
    /\ (op = "find_available_slots" /\ FindRan /\ WeekendOnly(find)) =>
          /\ (find.exclude_weekends /\ find.duration > 0) =>
                result = <<>> /\ potential_slots = <<>> /\ ~FindCaught
          /\ (/\ ~find.exclude_weekends
              /\ Blocking(all_events) = {}
              /\ DurationFits(find)) => result # <<>>
    /\ (FindRan /\ find.exclude_weekends) =>
          \A i \in 1..Len(potential_slots) :
              ~SaturdayOrSunday(potential_slots[i].start_time
                                    \div MinutesPerDay)
    /\ (GenerateDirect /\ call.exclude_weekends) =>
          \A i \in 1..Len(result) :
              ~SaturdayOrSunday(result[i].start_time \div MinutesPerDay)

C15_Witness ==
    /\ op = "find_available_slots"
    /\ FindRan
    /\ WeekendOnly(find)
    /\ find.exclude_weekends
    /\ DurationFits(find)
    /\ Blocking(all_events) = {}
    /\ result = <<>>

C15_WitnessIncluded ==
    /\ op = "find_available_slots"
    /\ FindRan
    /\ WeekendOnly(find)
    /\ ~find.exclude_weekends
    /\ DurationFits(find)
    /\ Blocking(all_events) = {}
    /\ \E i \in 1..Len(result), j \in 1..Len(result) :
          /\ (result[i].start_time \div MinutesPerDay) % 7 = 5
          /\ (result[j].start_time \div MinutesPerDay) % 7 = 6

(***************************************************************************)
(* C16: the results of _filter_conflicting_slots and of check_availability *)
(* do not change when the cancelled events are removed from the event      *)
(* list, or when one more cancelled event is inserted anywhere into it;    *)
(* and they do not change when every completed or rescheduled event is     *)
(* given the status scheduled.  For the filter the removal and the change  *)
(* of status are applied together, and the insertion is tried on the event *)
(* lists that have room for one more event.                                *)
(***************************************************************************)
CheckDone == op = "check_availability" /\ pc = "done"

WithoutCancelled(events) ==
    SelectSeq(events, LAMBDA e : e.status # "cancelled")

AsScheduled(events) ==
    <<>> \o [i \in 1..Len(events) |->
                IF events[i].status = "cancelled" THEN events[i]
                ELSE [events[i] EXCEPT !.status = "scheduled"]]

CancelledCopies == {[e EXCEPT !.status = "cancelled"] : e \in EventPool}

WithCancelled(events) ==
    {SubSeq(events, 1, k) \o <<e>> \o SubSeq(events, k + 1, Len(events)) :
        k \in 0..Len(events), e \in CancelledCopies}

C16_CancelledNeverBlocks ==
    /\ FilterDirect =>
          /\ result = _filter_conflicting_slots(
                          call.slots,
                          AsScheduled(WithoutCancelled(call.events)),
                          call.preferences)
          /\ Len(call.events) < MaxEvents =>
                \A more \in WithCancelled(call.events) :
                    result = _filter_conflicting_slots(call.slots, more,
                                                       call.preferences)
    /\ CheckDone =>
          /\ ret_bool = check_availability(call.start_time, call.end_time,
                                           WithoutCancelled(all_events), 1)
          /\ ret_bool = check_availability(call.start_time, call.end_time,
                                           AsScheduled(all_events), 1)
          /\ \A more \in WithCancelled(all_events) :
                ret_bool = check_availability(call.start_time,
                                              call.end_time, more, 1)
    /\ (FindRan /\ ~FindCaught) =>
          available_slots =
              _filter_conflicting_slots(potential_slots,
                                        WithoutCancelled(all_events),
                                        find.preferences)

C16_Witness ==
    /\ FilterDirect
    /\ \E i \in 1..Len(call.events), k \in 1..Len(result) :
          /\ call.events[i].status = "cancelled"
          /\ _slots_overlap(result[k], call.events[i])
    /\ \E j \in 1..Len(call.events), l \in 1..Len(call.slots) :
          /\ call.events[j].status \in {"completed", "rescheduled"}
          /\ Rejects(call.slots[l], call.events[j], FilterBuffer)
          /\ \A k \in 1..Len(result) : result[k] # call.slots[l]

C16_CheckWitness ==
    /\ CheckDone
    /\ ret_bool
    /\ \E i \in 1..Len(all_events) :
          /\ all_events[i].status = "cancelled"
          /\ call.start_time < all_events[i].end_time
          /\ call.end_time > all_events[i].start_time

(***************************************************************************)
(* C17: check_availability returns True exactly when no aggregated event   *)
(* with a status other than cancelled satisfies start < event.end and      *)
(* end > event.start; the buffer time plays no part, so an interval that   *)
(* only touches an event is available.                                     *)
(***************************************************************************)
C17_StrictOverlap ==
    CheckDone =>
        /\ outcome = "returned"
        /\ ret_bool =
              ~\E j \in Blocking(all_events) :
                  /\ call.start_time < all_events[j].end_time
                  /\ call.end_time > all_events[j].start_time

C17_Witness ==
    /\ CheckDone
    /\ ret_bool
    /\ call.end_time > call.start_time
    /\ \E j \in Blocking(all_events) :
          all_events[j].end_time = call.start_time
    /\ \E j \in Blocking(all_events) :
          /\ all_events[j].start_time > call.end_time
          /\ all_events[j].start_time - call.end_time
                 < find.preferences.buffer_time

C17_ConflictWitness ==
    /\ CheckDone
    /\ ~ret_bool
    /\ logged = <<>>
    /\ Len(all_events) = 3

(***************************************************************************)
(* C18: get_optimal_meeting_duration returns base + adjustment: base is    *)
(* 15, 30, 60, 90, 60, 120, 60 for standup, one_on_one, team_meeting,      *)
(* review, presentation, workshop, all_hands in any letter case, otherwise *)
(* the preferences' preferred_meeting_duration, or 60 without preferences; *)
(* adjustment is 15 above 10 attendees, else 10 above 5 attendees, else 0. *)
(***************************************************************************)
DurationDone == op = "get_optimal_meeting_duration" /\ pc = "done"

TableBase(t) ==
    CASE t \in {"standup", "STANDUP"} -> Some(15)
      [] t = "one_on_one" -> Some(30)
      [] t \in {"team_meeting", "Team_Meeting"} -> Some(60)
      [] t = "review" -> Some(90)
      [] t = "presentation" -> Some(60)
      [] t = "workshop" -> Some(120)
      [] t = "all_hands" -> Some(60)
      [] OTHER -> None

ExpectedBase ==
    IF ~IsNone(TableBase(call.meeting_type))
    THEN Val(TableBase(call.meeting_type))
    ELSE IF IsNone(call.user_preferences) THEN 60
    ELSE Val(call.user_preferences).preferred_meeting_duration

ExpectedAdjustment ==
    CASE call.attendee_count > 10 -> 15
      [] call.attendee_count > 5 /\ call.attendee_count <= 10 -> 10
      [] OTHER -> 0

C18_OptimalDuration ==
    DurationDone =>
        /\ outcome = "returned"
        /\ result = <<ExpectedBase + ExpectedAdjustment>>
        /\ call.attendee_count = 10 => result[1] = ExpectedBase + 10
        /\ call.attendee_count = 5 => result[1] = ExpectedBase
        /\ (call.meeting_type = "team_meeting" /\ call.attendee_count = 12)
               => result = <<75>>

C18_Witness ==
    /\ DurationDone
    /\ call.meeting_type = "Team_Meeting"
    /\ call.attendee_count = 10
    /\ ~IsNone(call.user_preferences)
    /\ Val(call.user_preferences).preferred_meeting_duration = 45
    /\ result = <<70>>

C18_FallbackWitness ==
    /\ DurationDone
    /\ call.meeting_type = "lunch"
    /\ call.attendee_count = 11
    /\ ~IsNone(call.user_preferences)
    /\ Val(call.user_preferences).preferred_meeting_duration = 45
    /\ result = <<60>>

(***************************************************************************)
(* C19: suggest_reschedule_options first fetches the event from the named  *)
(* provider, then runs find_available_slots with the event's start as      *)
(* preferred time over [today, today + 30 days], and returns exactly the   *)
(* list that run returned.  The duration of the run is new_duration when   *)
(* it is given and not zero, otherwise the length of the event in minutes. *)
(***************************************************************************)
SuggestRan == op = "suggest_reschedule_options" /\ FindRan

FetchedEvent == collab_calls[1].value[1]

EventLength(event) == event.end_time - event.start_time

RescheduleDerivation(duration) ==
    /\ collab_calls[1].method = <<call.calendar_provider, "get_event">>
    /\ ~collab_calls[1].raised
    /\ \A i \in 2..Len(collab_calls) :
          collab_calls[i].method[2] = "get_events"
    /\ find.duration = duration
    /\ find.preferred_time = Some(FetchedEvent.start_time)
    /\ find.start_date = call.today
    /\ find.end_date = call.today + 30
    /\ result = SubSeq(scored_slots, 1, Min(Len(scored_slots), 10))
    /\ FindCaught => scored_slots = <<>>
    /\ outcome = "returned"

C19_RescheduleDerivation ==
    SuggestRan =>
        RescheduleDerivation(
            IF ~IsNone(call.new_duration) /\ Val(call.new_duration) # 0
            THEN Val(call.new_duration)
            ELSE EventLength(FetchedEvent))

C19_Witness ==
    /\ SuggestRan
    /\ IsNone(call.new_duration)
    /\ call.calendar_provider = "outlook"
    /\ call.today = 0
    /\ find.duration = 60
    /\ Len(result) = max_suggestions
    /\ result[1].confidence > result[max_suggestions].confidence

C19_NewDurationWitness ==
    /\ SuggestRan
    /\ call.new_duration = Some(120)
    /\ find.duration = 120
    /\ EventLength(FetchedEvent) = 60
    /\ Len(result) = max_suggestions

(***************************************************************************)
(* C19 as stated: whenever new_duration is given, zero included, it is the *)
(* duration of the run.                                                    *)
(***************************************************************************)
C19_NewDurationWheneverGiven ==
    SuggestRan =>
        RescheduleDerivation(
            IF ~IsNone(call.new_duration) THEN Val(call.new_duration)
            ELSE EventLength(FetchedEvent))

(***************************************************************************)
(* C20: for duration d > 0, buffer b >= 0 and a working window of W        *)
(* minutes, _generate_day_slots returns, in this order, the slots starting *)
(* at work_start + k*(d+b) for exactly the k >= 0 with k*(d+b) + d <= W:   *)
(* the first starts at work_start, consecutive slots are b minutes apart,  *)
(* the last ends at or before work_end, and there are (W+b) div (d+b) of   *)
(* them when W >= d.  Over several days the generated slots are in         *)
(* strictly increasing start order.                                        *)
(***************************************************************************)
DayDirect == op = "_generate_day_slots" /\ pc = "done"

DayStart == Val(call.start_date) * MinutesPerDay

Window == call.preferences.work_end_time - call.preferences.work_start_time

Stride == call.duration + call.preferences.buffer_time

Emitted == {k \in 0..Window : k * Stride + call.duration <= Window}

StrictlyIncreasing(slots) ==
    \A i \in 1..(Len(slots) - 1) :
        slots[i].start_time < slots[i + 1].start_time

C20_SlotGenerationRule ==
    /\ (DayDirect /\ call.duration > 0) =>
          /\ outcome = "returned"
          /\ Len(result) = Cardinality(Emitted)
          /\ \A k \in Emitted : k + 1 <= Len(result)
          /\ \A k \in 0..(Len(result) - 1) :
                /\ result[k + 1].start_time =
                       DayStart + call.preferences.work_start_time
                           + k * Stride
                /\ result[k + 1].end_time <=
                       DayStart + call.preferences.work_end_time
          /\ \A i \in 1..(Len(result) - 1) :
                result[i + 1].start_time - result[i].end_time
                    = call.preferences.buffer_time
          /\ Window >= call.duration =>
                Len(result) = (Window + call.preferences.buffer_time)
                                  \div Stride
          /\ (Window = 8 * 60 /\ call.duration = 60
                 /\ call.preferences.buffer_time = 15) => Len(result) = 6
    /\ GenerateDirect => StrictlyIncreasing(result)
    /\ (FindRan /\ ~FindCaught) => StrictlyIncreasing(potential_slots)

C20_Witness ==
    /\ DayDirect
    /\ call.duration = 60
    /\ call.preferences.buffer_time = 15
    /\ Window = 8 * 60
    /\ Len(result) = 6
    /\ result[6].end_time < DayStart + call.preferences.work_end_time

C20_ExactFitWitness ==
    /\ DayDirect
    /\ call.duration = 8 * 60
    /\ Len(result) = 1
    /\ result[1].end_time = DayStart + call.preferences.work_end_time

C20_DaysWitness ==
    /\ GenerateDirect
    /\ \E i \in 1..(Len(result) - 1) :
          result[i + 1].start_time \div MinutesPerDay
              > result[i].start_time \div MinutesPerDay

(***************************************************************************)
(* C21: _generate_day_slots returns no slot when the duration is longer    *)
(* than the working window (work_end < work_start + duration), and exactly *)
(* one slot, the whole window, when the duration fills it exactly.         *)
(***************************************************************************)
C21_TightWindow ==
    (DayDirect /\ call.duration > 0) =>
        /\ Window < call.duration => result = <<>>
        /\ Window = call.duration =>
              /\ Len(result) = 1
              /\ result[1].start_time =
                     DayStart + call.preferences.work_start_time
              /\ result[1].end_time =
                     DayStart + call.preferences.work_end_time

C21_Witness ==
    /\ DayDirect
    /\ outcome = "returned"
    /\ call.duration = 9 * 60
    /\ Window = 8 * 60
    /\ result = <<>>

(***************************************************************************)
(* C21 as stated: no slot whenever work_end <= work_start + duration, the  *)
(* exactly filled window included.                                         *)
(***************************************************************************)
C21_NoSlotWhenExactlyFilled ==
    (DayDirect /\ call.duration > 0 /\ Window <= call.duration)
        => result = <<>>


(***************************************************************************)
(* C22: every confidence written by _score_time_slots is the clamped sum   *)
(* 0.5 + P + 0.2 (start time of day within [work_start, work_end]) + 0.1   *)
(* (hour < 12) - 0.2 (hour < 8 or hour > 17) - 0.1 (11 <= hour <= 13)      *)
(* + 0.1 (Monday to Friday), where P = max(0, 0.5 - |start - preferred| /  *)
(* 24h) when a preferred time is given and 0 otherwise; so it lies in      *)
(* (0, 1].  The three hour terms are tabulated per hour of the day, in     *)
(* units of 1/1440.                                                        *)
(***************************************************************************)
HourTerms ==
    [h \in 0..23 |->
        CASE h <= 7 -> -144
          [] h <= 10 -> 144
          [] h = 11 -> 0
          [] h <= 13 -> -144
          [] h <= 17 -> 0
          [] OTHER -> -288]

Proximity(slot, f) ==
    IF f.preferred_time = <<>> THEN 0
    ELSE LET preferred == f.preferred_time[1]
             apart == IF slot.start_time >= preferred
                      THEN slot.start_time - preferred
                      ELSE preferred - slot.start_time
         IN IF apart >= 720 THEN 0 ELSE 720 - apart

UnclampedScore(slot, f) ==
    720 + Proximity(slot, f)
    + (IF /\ f.preferences.work_start_time <= slot.start_time % 1440
          /\ slot.start_time % 1440 <= f.preferences.work_end_time
       THEN 288 ELSE 0)
    + HourTerms[(slot.start_time % 1440) \div 60]
    + (IF (slot.start_time \div 1440) % 7 < 5 THEN 144 ELSE 0)

ScoreContext == IF ScoreDirect THEN call ELSE find

C22_ScoringFormula ==
    ScoreRan =>
        \A i \in 1..Len(scored_slots) :
            /\ scored_slots[i].confidence =
                  Max(0, Min(1440, UnclampedScore(scored_slots[i],
                                                  ScoreContext)))
            /\ scored_slots[i].confidence > 0
            /\ scored_slots[i].confidence <= 1440

C22_Witness ==
    /\ ScoreDirect
    /\ ~IsNone(call.preferred_time)
    /\ \E i \in 1..Len(result) :
          /\ UnclampedScore(result[i], call) > 1440
          /\ result[i].confidence = 1440
    /\ \E i \in 1..Len(result) :
          /\ HourOf(result[i].start_time) > 17
          /\ result[i].confidence < 1440

C22_FarFromPreferredWitness ==
    /\ FindRan
    /\ ~FindCaught
    /\ ~IsNone(find.preferred_time)
    /\ \E i \in 1..Len(scored_slots) :
          /\ Abs(scored_slots[i].start_time - Val(find.preferred_time)) > 720
          /\ scored_slots[i].confidence < 1440


(***************************************************************************)
(* C23: with no preferred time, working hours 09:00-17:00 and the same     *)
(* weekday, a slot starting at hour 9, 10 or 11 never scores lower than a  *)
(* slot starting at hour 12 to 16, and it scores strictly higher except    *)
(* when it starts at hour 11 and the other at hour 14, 15 or 16, where the *)
(* two scores are equal.                                                   *)
(***************************************************************************)
StartHour(slot) == (slot.start_time % 1440) \div 60

MorningAfternoonSetting ==
    /\ ScoreRan
    /\ ScoreContext.preferred_time = <<>>
    /\ ScoreContext.preferences.work_start_time = 9 * 60
    /\ ScoreContext.preferences.work_end_time = 17 * 60

MorningAfternoonPairs ==
    {p \in (1..Len(scored_slots)) \X (1..Len(scored_slots)) :
        /\ StartHour(scored_slots[p[1]]) \in 9..11
        /\ StartHour(scored_slots[p[2]]) \in 12..16
        /\ (scored_slots[p[1]].start_time \div 1440) % 7
              = (scored_slots[p[2]].start_time \div 1440) % 7}

LunchTie(p) ==
    /\ StartHour(scored_slots[p[1]]) = 11
    /\ StartHour(scored_slots[p[2]]) \in 14..16

C23_MorningNotBelowAfternoon ==
    MorningAfternoonSetting =>
        \A p \in MorningAfternoonPairs :
            IF LunchTie(p)
            THEN scored_slots[p[1]].confidence
                    = scored_slots[p[2]].confidence
            ELSE scored_slots[p[1]].confidence
                    > scored_slots[p[2]].confidence

C23_Witness ==
    /\ MorningAfternoonSetting
    /\ ScoreDirect
    /\ \E p \in MorningAfternoonPairs :
          /\ StartHour(scored_slots[p[1]]) = 9
          /\ StartHour(scored_slots[p[2]]) = 14
          /\ scored_slots[p[1]].confidence > scored_slots[p[2]].confidence
    /\ \E p \in MorningAfternoonPairs :
          /\ LunchTie(p)
          /\ scored_slots[p[1]].confidence = scored_slots[p[2]].confidence

C23_PipelineWitness ==
    /\ MorningAfternoonSetting
    /\ FindRan
    /\ \E p \in MorningAfternoonPairs :
          /\ StartHour(scored_slots[p[1]]) = 11
          /\ StartHour(scored_slots[p[2]]) \in 12..13
          /\ scored_slots[p[1]].confidence > scored_slots[p[2]].confidence

(* The stronger statement: strictly higher for every such pair.            *)
C23_MorningStrictlyBeatsAfternoon ==
    MorningAfternoonSetting =>
        \A p \in MorningAfternoonPairs :
            scored_slots[p[1]].confidence > scored_slots[p[2]].confidence


(***************************************************************************)
(* C24: in OutlookAPI._make_request a 429 response, or a 401 response      *)
(* whose token refresh succeeded, on an attempt that is not the last is    *)
(* followed by another request: the call never ends with such a response   *)
(* as its last one.  (A 401 whose refresh failed raises inside the try     *)
(* block and is retried like any other exception, so every 401 on an       *)
(* attempt that is not the last is covered.)                               *)
(***************************************************************************)
OutlookDone == op = "outlook.get_events" /\ pc = "done"

C24_OutlookRetries ==
    OutlookDone =>
        \A i \in 1..Len(req.responses) :
            (req.responses[i] \in {"429", "401"} /\ i < max_retries)
                => Len(req.responses) > i


(***************************************************************************)
(* C25: within one GoogleCalendarAPI._make_request call the collaborator   *)
(* re-authenticates at most once, and at most one request is a retry that  *)
(* follows a 401 response.                                                 *)
(***************************************************************************)
GoogleCall == op = "google.get_events"

AuthRetries ==
    Cardinality({i \in 1..(Len(req.responses) - 1) :
                    req.responses[i] = "401"})

C25_SingleReauthentication ==
    GoogleCall => (req.reauths <= 1 /\ AuthRetries <= 1)


(***************************************************************************)
(* C26: every iteration of GoogleCalendarAPI._make_request's loop sends    *)
(* one request, on attempt k = 0, 1 or 2, and either ends the call or      *)
(* moves to attempt k + 1, so the call sends at most three requests and    *)
(* ends after at most three iterations.  A success ends it with the        *)
(* converted result; a 429 on attempt k waits min(2^k, 60) seconds and     *)
(* retries while an attempt is left; an HTTP error other than 429 and 401  *)
(* ends it at once as a failure.  Waits never decrease and never exceed    *)
(* 60 seconds.                                                             *)
(***************************************************************************)
LastResponse(r) == r.responses[Len(r.responses)]

FailedFetch(p, res, out, lg) ==
    /\ p = "done"
    /\ res = <<>>
    /\ out = "returned"
    /\ lg # <<>>
    /\ lg[Len(lg)] = "Failed to get events"

WaitsBounded(w) ==
    /\ \A i \in 1..Len(w) : w[i] <= 60
    /\ \A i \in 1..(Len(w) - 1) : w[i] <= w[i + 1]

GoogleIteration ==
    (GoogleCall /\ pc = "request") =>
        LET k == req.attempt IN
        /\ k \in 0..2
        /\ Len(req.responses) = k
        /\ Len(req'.responses) = k + 1
        /\ SubSeq(req'.responses, 1, k) = req.responses
        /\ \/ pc' = "done"
           \/ pc' = "request" /\ req'.attempt = k + 1 /\ k + 1 <= 2
        /\ LastResponse(req') = "200" =>
              /\ pc' = "done"
              /\ outcome' = "returned"
              /\ req'.fetched
              /\ result' = ConvertedGoogleEvents(req'.items)
              /\ req'.waits = req.waits
              /\ logged' = logged
        /\ LastResponse(req') = "429" =>
              /\ req'.waits
                    = Append(req.waits, IF 2 ^ k < 60 THEN 2 ^ k ELSE 60)
              /\ IF k < 2 THEN pc' = "request"
                 ELSE FailedFetch(pc', result', outcome', logged')
        /\ LastResponse(req') = "500" =>
              /\ FailedFetch(pc', result', outcome', logged')
              /\ req'.waits = req.waits
        /\ pc' = "done" /\ LastResponse(req') # "200" =>
              FailedFetch(pc', result', outcome', logged')
        /\ WaitsBounded(req'.waits)

C26_BoundedRetry == [][GoogleIteration]_vars

C26_Witness ==
    /\ GoogleCall
    /\ pc = "done"
    /\ req.responses = <<"429", "429", "200">>
    /\ req.waits = <<1, 2>>
    /\ Len(result) > 0

C26_ExhaustedWitness ==
    /\ GoogleCall
    /\ pc = "done"
    /\ req.responses = <<"429", "429", "429">>
    /\ req.waits = <<1, 2, 4>>
    /\ result = <<>>

C26_ImmediateRaiseWitness ==
    /\ GoogleCall
    /\ pc = "done"
    /\ req.responses = <<"500">>
    /\ req.waits = <<>>


(***************************************************************************)
(* C27: within one find_available_slots request the Outlook get_events     *)
(* call does not wait for the Google get_events call: while the Google     *)
(* call is still outstanding, the Outlook call can already take place.     *)
(***************************************************************************)
GoogleOutstanding == op = "find_available_slots" /\ pc = "google"

C27_IndependentFetches ==
    GoogleOutstanding =>
        ENABLED (OutlookGetEventsReturns \/ OutlookGetEventsRaises)


(***************************************************************************)
(* C28: called with valid inputs (duration > 0, buffer_time >= 0, work_end *)
(* after work_start, start_date <= end_date), _generate_potential_slots,   *)
(* _generate_day_slots, _filter_conflicting_slots and _score_time_slots    *)
(* return a list and do not raise.  The generated list is bounded by the   *)
(* loops' progress: one day per iteration of the day loop and duration +   *)
(* buffer > 0 minutes per iteration of the slot loop; the filter returns   *)
(* at most, and the scorer exactly, as many slots as it was given.         *)
(***************************************************************************)
GenerationOps == {"_generate_potential_slots", "_generate_day_slots"}
PureOps ==
    GenerationOps \cup {"_filter_conflicting_slots", "_score_time_slots"}

ValidCall ==
    /\ call.preferences.buffer_time >= 0
    /\ op \in GenerationOps =>
          /\ call.duration > 0
          /\ call.preferences.work_end_time > call.preferences.work_start_time
          /\ call.start_date # <<>>
          /\ call.end_date # <<>>
          /\ call.start_date[1] <= call.end_date[1]

DaysVisited == call.end_date[1] - call.start_date[1] + 1

LoopProgress(slots) ==
    \A i \in 1..(Len(slots) - 1) :
        IF slots[i].start_time \div 1440 = slots[i + 1].start_time \div 1440
        THEN /\ slots[i + 1].start_time - slots[i].start_time
                   = call.duration + call.preferences.buffer_time
             /\ call.duration + call.preferences.buffer_time > 0
        ELSE slots[i].start_time \div 1440 < slots[i + 1].start_time \div 1440

PureStep ==
    (pc = "call" /\ op \in PureOps /\ ValidCall) =>
        /\ pc' = "done"
        /\ outcome' = "returned"
        /\ op \in GenerationOps =>
              /\ Len(result') <= DaysVisited * (Window \div Stride + 1)
              /\ LoopProgress(result')
        /\ op = "_filter_conflicting_slots" => Len(result') <= Len(call.slots)
        /\ op = "_score_time_slots" => Len(result') = Len(call.slots)

C28_PurePipelineReturns == [][PureStep]_vars

C28_Witness ==
    /\ op = "_generate_potential_slots"
    /\ pc = "done"
    /\ ValidCall
    /\ outcome = "returned"
    /\ call.duration = 45
    /\ DaysVisited = 2
    /\ Len(result) > Window \div Stride + 1

C28_EmptyListWitness ==
    /\ op = "_generate_potential_slots"
    /\ pc = "done"
    /\ ValidCall
    /\ outcome = "returned"
    /\ result = <<>>

C28_FilterWitness ==
    /\ op = "_filter_conflicting_slots"
    /\ pc = "done"
    /\ outcome = "returned"
    /\ Len(call.events) = MaxEvents
    /\ Len(result) < Len(call.slots)


(***************************************************************************)
(* C29: when no source fails, the list _get_existing_events returns holds  *)
(* each event exactly as often as the Google collaborator, the Outlook     *)
(* collaborator and the inline events of the user context report it taken  *)
(* together: nothing dropped, nothing added, no duplicate merged, and      *)
(* cancelled events kept.  Without a user context there are no inline      *)
(* events.                                                                 *)
(***************************************************************************)
AggregatorDone == op = "_get_existing_events" /\ pc = "done"

NoSourceFailed ==
    /\ logged = <<>>
    /\ Len(collab_calls) = 2
    /\ collab_calls[1].method = <<"google", "get_events">>
    /\ collab_calls[2].method = <<"outlook", "get_events">>
    /\ ~collab_calls[1].raised
    /\ ~collab_calls[2].raised

InlineReported ==
    IF call.has_context
    THEN <<>> \o [i \in 1..Len(call.existing_events) |->
             [event_id |-> call.existing_events[i].event_id,
              start_time |->
                 LET s == call.existing_events[i].start_time[1]
                 IN s[1] * 1440 + s[2] * 60 + s[3],
              end_time |->
                 LET e == call.existing_events[i].end_time[1]
                 IN e[1] * 1440 + e[2] * 60 + e[3],
              status |-> call.existing_events[i].status]]
    ELSE <<>>

Occurrences(list, e) == Cardinality({k \in 1..Len(list) : list[k] = e})

Elements(list) == {list[k] : k \in 1..Len(list)}

C29_PlainUnion ==
    (AggregatorDone /\ NoSourceFailed) =>
        /\ outcome = "returned"
        /\ Len(result) = Len(collab_calls[1].value)
                         + Len(collab_calls[2].value) + Len(InlineReported)
        /\ \A e \in Elements(result) \cup Elements(collab_calls[1].value)
                    \cup Elements(collab_calls[2].value)
                    \cup Elements(InlineReported) :
              Occurrences(result, e)
                 = Occurrences(collab_calls[1].value, e)
                   + Occurrences(collab_calls[2].value, e)
                   + Occurrences(InlineReported, e)

C29_Witness ==
    /\ AggregatorDone
    /\ NoSourceFailed
    /\ call.has_context
    /\ Len(call.existing_events) > 0
    /\ \E e \in Elements(result) :
          /\ Occurrences(result, e) = 2
          /\ Occurrences(collab_calls[1].value, e) = 1
          /\ Occurrences(collab_calls[2].value, e) = 1

C29_CancelledWitness ==
    /\ AggregatorDone
    /\ NoSourceFailed
    /\ ~call.has_context
    /\ Len(result) = 2
    /\ \E k \in 1..Len(result) : result[k].status = "cancelled"


(***************************************************************************)
(* C30: for the same event list and any buffer_time >= 0, every slot that  *)
(* _filter_conflicting_slots keeps passes the overlap test of              *)
(* check_availability for the interval [slot.start, slot.end).  The        *)
(* converse fails with a positive buffer: a slot within buffer distance of *)
(* an event passes the overlap test and is removed by the filter.          *)
(***************************************************************************)
PassesCheck(slot, events) ==
    check_availability(slot.start_time, slot.end_time, events, 1)

C30_FilterStricterThanCheck ==
    (FilterRan /\ FilterBuffer >= 0) =>
        \A i \in 1..Len(available_slots) :
            PassesCheck(available_slots[i], FilterEvents)

C30_Witness ==
    /\ FilterDirect
    /\ FilterBuffer > 0
    /\ Blocking(FilterEvents) # {}
    /\ Len(available_slots) > 0
    /\ \E i \in 1..Len(FilterInput) :
          /\ PassesCheck(FilterInput[i], FilterEvents)
          /\ \A k \in 1..Len(available_slots) :
                available_slots[k] # FilterInput[i]

C30_PipelineWitness ==
    /\ op = "find_available_slots"
    /\ FindRan
    /\ ~FindCaught
    /\ FilterBuffer > 0
    /\ Len(available_slots) > 0
    /\ \E i \in 1..Len(potential_slots) :
          /\ PassesCheck(potential_slots[i], all_events)
          /\ \A k \in 1..Len(available_slots) :
                available_slots[k] # potential_slots[i]

====
